---- MODULE Spec2Model ----
(***************************************************************************)
(* A model of twittertools.TwitterTools (src/twittertools.py): the request *)
(* dispatcher endpoint_request with its nested handle_http_error, and the  *)
(* public retrieval operations built on it.  The Twitter server is the     *)
(* environment: every call of an endpoint callable either returns a        *)
(* payload, raises a TwitterHTTPError with some status, or raises another  *)
(* exception.                                                              *)
(***************************************************************************)
EXTENDS Integers, Sequences, FiniteSets, TLC

VARIABLES
    op,         \* the public operation in progress, "idle" before the first
    pc,         \* its position: "idle", "dispatch" (inside endpoint_request), "done"
    outcome,    \* how the operation ended: returned value or raised exception
    endpoint,   \* endpoint_request: the endpoint argument
    kwargs,     \* the keyword arguments of the request being built / sent
    dpc,        \* endpoint_request: "off", "run" (in the while loop), "ret", "raise"
    wait,       \* endpoint_request: the local wait
    dret,       \* endpoint_request: the value returned
    exc,        \* the exception raised, when one was
    faults,     \* environment: error responses the server may still give
    netCalls,   \* calls of the endpoint callable made by this endpoint_request
    nSleeps,    \* time.sleep calls made by this endpoint_request
    lastCode,   \* status of the TwitterHTTPError the last attempt raised, else 0
    prevWait,   \* the wait passed to the last handle_http_error
    newWait,    \* the handler's local wait when it returned or raised
    slept,      \* the sleeps (durations) made on account of the last attempt
    n429,       \* 429 responses received by this endpoint_request
    retries429, \* attempts of this endpoint_request made right after a 429
    args,       \* the arguments of the operation in progress
    results,    \* the walker's last response (results; response in the lookup)
    tweets,     \* the walker's accumulated list (tweets; items of
                \* get_cursored_items; results of get_items_by_lookup)
    cursor,     \* get_cursored_items: cursor
    items,      \* get_items_by_lookup: the items not yet requested
    search,     \* search_tweets: the index of the for loop
    reqs,       \* the requests the operation has made: endpoint and kwargs
    resps,      \* the values endpoint_request has returned to the operation
    frames      \* two threads calling endpoint_request on one TwitterTools:
                \* the locals of each one's call (used by ThreadsSpec only)

dvars == <<endpoint, dpc, wait, dret, exc, faults, netCalls, nSleeps,
           lastCode, prevWait, newWait, slept, n429, retries429>>
wvars == <<args, results, tweets, cursor, items, search, resps>>
vars == <<op, pc, outcome, kwargs, dvars, wvars, reqs, frames>>

----------------------------------------------------------------------------
(* Bounds of the model *)

\* error responses the server gives to one request of a single-request operation
MaxFaults == 20
\* 429 responses the server gives to one endpoint_request
Max429 == 2
\* error responses the server gives to one request of a walker
WalkFaults == 1
\* the tweet ids of the server are 1..MaxId
MaxId == 4
\* the server returns at most MaxPage items in one response
MaxPage == 2
\* a cursored list of the server spans at most MaxWalk responses
MaxWalk == 3
\* error responses the server gives to one endpoint_request of a thread
ThreadFaults == 3

----------------------------------------------------------------------------
(* Python values *)

None == [t |-> "None"]
I(n) == [t |-> "int", v |-> n]
S(s) == [t |-> "str", v |-> s]
L(s) == [t |-> "list", v |-> s]
D(f) == [t |-> "dict", v |-> f]

\* Python truth value testing, as used by `while wait:`, `if not results:` ...
Truthy(x) ==
    CASE x.t = "None" -> FALSE
      [] x.t = "int"  -> x.v # 0
      [] x.t = "str"  -> x.v # ""
      [] x.t = "list" -> x.v # <<>>
      [] x.t = "chars" -> x.v # <<>>
      [] x.t = "dict" -> DOMAIN x.v # {}

\* d[k] = v on a dict (a function from keys)
Put(d, k, v) == [x \in DOMAIN d \cup {k} |-> IF x = k THEN v ELSE d[x]]
EmptyDict == [x \in {} |-> None]

\* The wait is an int (0, 1) or a float 1.5^k; 1.5^k = 3^k / 2^k is exact in a
\* double for every k the loop reaches, so it is kept as the fraction num/den.
Num(n) == [num |-> n, den |-> 1]
Less(a, b) == a.num * b.den < b.num * a.den
\* wait * 1.5 with the result dropped: the wait stays what it was
Times15_same(w) == w
\* wait *= 1.5, line 350, and the doubling backoff it could be mistaken for
Times15_double(w) == [num |-> 2 * w.num, den |-> w.den]
Times15(w) == [num |-> 3 * w.num, den |-> 2 * w.den]

----------------------------------------------------------------------------
(* The endpoint registry, built in __init__ *)

EndpointNames ==
    { "/application/rate_limit_status", "/favorites/list", "/followers/ids",
      "/friends/ids", "/search/tweets", "/statuses/home_timeline",
      "/statuses/user_timeline", "/statuses/lookup", "/statuses/update",
      "/trends/available", "/trends/closest", "/trends/place", "/users/lookup" }

\* the keys of self.api_endpoint_method
api_endpoint_method == { S(e) : e \in EndpointNames }

\* an endpoint string that is no key of the registry
Bogus == S("/no/such/endpoint")

----------------------------------------------------------------------------
(* handle_http_error, nested in endpoint_request *)

\* line 330, and the same with 404 forgotten
ClientErrors_no404 == {401, 403}
ClientErrors == {401, 403, 404}
\* line 345, and the same with 400 taken for a server error
ServerErrors_with400 == {400, 500, 502, 503, 504}
ServerErrors == {500, 502, 503, 504}
\* error.e.code: the statuses the server answers with; 400 and 420 are two
\* that the handler has no branch for
HttpCodes == {400, 401, 403, 404, 420, 429, 500, 502, 503, 504}

\* time.sleep(60 * 15), line 337, and the same with the minutes forgotten
Cooldown_seconds == Num(15)
Cooldown == Num(60 * 15)
\* 60 * 30, line 351, and the 60 * 15 of line 337 in its place
Ceiling_cooldown == Num(60 * 15)
Ceiling == Num(60 * 30)
\* retry=True, the default of line 302: endpoint_request passes no retry
DefaultRetry_off == FALSE
DefaultRetry == TRUE

\* handle_http_error with the test of retry left out of the 429 branch
handle_http_error_429_always(ecode, w, retry) ==
    IF ecode \in ClientErrors
    THEN [raised |-> FALSE, wait |-> Num(0), slept |-> <<>>]
    ELSE IF ecode = 429
    THEN [raised |-> FALSE, wait |-> Num(1), slept |-> <<Cooldown>>]
    ELSE IF ecode \in ServerErrors
    THEN IF retry
         THEN [raised |-> ~Less(Times15(w), Ceiling),
               wait |-> Times15(w), slept |-> <<w>>]
         ELSE [raised |-> TRUE, wait |-> w, slept |-> <<>>]
    ELSE [raised |-> TRUE, wait |-> w, slept |-> <<>>]

\* The handler's result: raised (the error is re-raised), wait (its local
\* wait at that point: the return value when not raised), slept (its sleeps).
handle_http_error(ecode, w, retry) ==
    IF ecode \in ClientErrors
    THEN [raised |-> FALSE, wait |-> Num(0), slept |-> <<>>]
    ELSE IF ecode = 429
    THEN IF retry
         THEN [raised |-> FALSE, wait |-> Num(1), slept |-> <<Cooldown>>]
         ELSE [raised |-> FALSE, wait |-> Num(0), slept |-> <<>>]
    ELSE IF ecode \in ServerErrors
    THEN IF retry
         THEN [raised |-> ~Less(Times15(w), Ceiling),
               wait |-> Times15(w), slept |-> <<w>>]
         ELSE [raised |-> TRUE, wait |-> w, slept |-> <<>>]
    ELSE [raised |-> TRUE, wait |-> w, slept |-> <<>>]

----------------------------------------------------------------------------
(* Exceptions *)

NoExc == [type |-> "none", code |-> 0]
KeyError == [type |-> "KeyError", code |-> 0]
TypeError == [type |-> "TypeError", code |-> 0]
\* twitter.api.TwitterHTTPError with e.code = c
HTTPError(c) == [type |-> "TwitterHTTPError", code |-> c]
\* an exception of the endpoint callable that is no TwitterHTTPError
URLError == [type |-> "URLError", code |-> 0]
IndexError == [type |-> "IndexError", code |-> 0]
ValueError == [type |-> "ValueError", code |-> 0]

----------------------------------------------------------------------------
(* The server: the payloads an endpoint callable can return *)

Min(a, b) == IF a < b THEN a ELSE b

\* A tweet is a dict of which the walkers read only 'id'.
Tweet(i) == [id |-> i]

\* the tweets with the ids of ids, newest (largest id) first
RECURSIVE Newest(_)
Newest(ids) ==
    IF ids = {} THEN <<>>
    ELSE LET m == CHOOSE x \in ids : \A y \in ids : y <= x
         IN <<Tweet(m)>> \o Newest(ids \ {m})

\* A timeline endpoint honours max_id: it returns tweets with ids <= max_id
\* only, newest first, at most MaxPage of them.
TimelinePages(kw) ==
    LET top == IF "max_id" \in DOMAIN kw THEN Min(MaxId, kw["max_id"].v) ELSE MaxId
    IN { L(Newest(ids)) : ids \in { x \in SUBSET (1..top) : Cardinality(x) <= MaxPage } }

TimelineEndpoints ==
    {S("/statuses/user_timeline"), S("/favorites/list"), S("/statuses/home_timeline")}

\* The items of the nth response of a walk are told apart by n and their
\* place in the response: objects 10n+1, 10n+2, ...
Objects(nth, len) == [j \in 1..len |-> I(10 * nth + j)]

\* the next_cursor values of the server; 0 ends the list
Cursors == {0, 7}

\* A cursored endpoint returns a dict with the ids and next_cursor; the
\* server's list spans at most MaxWalk responses.
CursorPayloads(nth) ==
    { D([ids |-> L(Objects(nth, len)), next_cursor |-> I(c)]) :
        len \in 0..MaxPage, c \in IF nth >= MaxWalk THEN {0} ELSE Cursors }

CursorEndpoints == {S("/friends/ids"), S("/followers/ids")}

\* a list endpoint (the lookups, the trend locations) returns a list of objects
ListPayloads(nth) == { L(Objects(nth, len)) : len \in 0..MaxPage }

LookupEndpoints == {S("/users/lookup"), S("/statuses/lookup")}
LocationEndpoints == {S("/trends/available"), S("/trends/closest")}

\* /application/rate_limit_status: the resources by category and subcategory
RateLimitPayloads ==
    { D([resources |-> D([
          statuses |-> D(("/statuses/user_timeline" :> I(r)) @@
                         ("/statuses/lookup" :> I(900))),
          search |-> D(("/search/tweets" :> I(180))) ]) ]) : r \in {0, 900} }

\* /trends/place: a list of one object that holds the trends
TrendPayloads == { L(<<D([trends |-> p, locations |-> L(<<I(1)>>)])>>) : p \in ListPayloads(1) }

\* A string read character by character: the list of its characters.
Chars(cs) == [t |-> "chars", v |-> cs]

\* search_metadata.next_results as the server may send it: well formed
\* (?max_id=5&q=foo), a piece with no '=' (?max_id=5&q), a piece with two
\* '=' (?q=a=b)
Fragments ==
    { <<"?", "m", "a", "x", "_", "i", "d", "=", "5", "&", "q", "=", "f", "o", "o">>,
      <<"?", "m", "a", "x", "_", "i", "d", "=", "5", "&", "q">>,
      <<"?", "q", "=", "a", "=", "b">> }

\* search_metadata with and without next_results
SearchMetadata ==
    { D([completed_in |-> I(1)]) } \cup
    { D([completed_in |-> I(1), next_results |-> Chars(f)]) : f \in Fragments }

\* /search/tweets: the statuses and the metadata
SearchPayloads(nth) ==
    { D([statuses |-> p, search_metadata |-> m]) :
        p \in ListPayloads(nth), m \in SearchMetadata }

\* the payloads the server can return to the nth request of an operation
ServerPayloads(ep, kw, nth) ==
    IF ep \in TimelineEndpoints THEN TimelinePages(kw)
    ELSE IF ep \in CursorEndpoints THEN CursorPayloads(nth)
    ELSE IF ep \in LookupEndpoints \cup LocationEndpoints THEN ListPayloads(nth)
    ELSE IF ep = S("/application/rate_limit_status") THEN RateLimitPayloads
    ELSE IF ep = S("/trends/place") THEN TrendPayloads
    ELSE IF ep = S("/search/tweets") THEN SearchPayloads(nth)
    ELSE {D([id |-> I(1)])}

----------------------------------------------------------------------------
(* endpoint_request *)

\* endpoint_request with the lookup of line 359 replaced by one that does not
\* fail (dict.get): the loop is entered for any endpoint
endpoint_request_get(ep, kw, budget) ==
    /\ endpoint' = ep
    /\ kwargs' = kw
    /\ faults' = budget
    /\ netCalls' = 0 /\ nSleeps' = 0 /\ lastCode' = 0
    /\ prevWait' = Num(0) /\ newWait' = Num(0) /\ slept' = <<>>
    /\ n429' = 0 /\ retries429' = 0
    /\ dret' = None
    /\ dpc' = "run" /\ wait' = Num(1) /\ exc' = NoExc

\* The call: the registry lookup (line 359) and wait = 1 (line 361).  budget is
\* the number of error responses the server may give to this request.
endpoint_request(ep, kw, budget) ==
    /\ endpoint' = ep
    /\ kwargs' = kw
    /\ faults' = budget
    /\ netCalls' = 0 /\ nSleeps' = 0 /\ lastCode' = 0
    /\ prevWait' = Num(0) /\ newWait' = Num(0) /\ slept' = <<>>
    /\ n429' = 0 /\ retries429' = 0
    /\ dret' = None
    /\ IF ep \in api_endpoint_method
       THEN dpc' = "run" /\ wait' = Num(1) /\ exc' = NoExc
       ELSE dpc' = "raise" /\ wait' = Num(0) /\ exc' = KeyError

\* one more call of the endpoint callable, line 364
Attempt ==
    /\ dpc = "run"
    /\ netCalls' = netCalls + 1
    /\ retries429' = IF lastCode = 429 THEN retries429 + 1 ELSE retries429

\* api_endpoint(*args, **kwargs) returns: endpoint_request returns its value
ApiReturns ==
    /\ Attempt
    /\ \E p \in ServerPayloads(endpoint, kwargs, Len(resps) + 1) : dret' = p
    /\ dpc' = "ret"
    /\ lastCode' = 0
    /\ slept' = <<>>
    /\ UNCHANGED <<op, pc, outcome, kwargs, endpoint, wait, exc, faults, nSleeps,
                   prevWait, newWait, n429, wvars, reqs, frames>>

\* lines 365-366 and 362: a TwitterHTTPError with status code is caught, the
\* handler is called with this retry, and its result, if it returns one, is
\* the wait that `while wait` tests next
catch_http_error(code, retry) ==
    LET h == handle_http_error(code, wait, retry) IN
    /\ n429' = IF code = 429 THEN n429 + 1 ELSE n429
    /\ lastCode' = code
    /\ prevWait' = wait
    /\ newWait' = h.wait
    /\ slept' = h.slept
    /\ nSleeps' = nSleeps + Len(h.slept)
    /\ IF h.raised
       THEN dpc' = "raise" /\ exc' = HTTPError(code) /\ UNCHANGED <<wait, dret>>
       ELSE /\ wait' = h.wait
            /\ dpc' = IF h.wait.num # 0 THEN "run" ELSE "ret"
            /\ UNCHANGED <<exc, dret>>

\* api_endpoint raises TwitterHTTPError: wait = handle_http_error(e, endpoint, wait),
\* then the test of `while wait`
ApiHttpError ==
    /\ Attempt
    /\ faults > 0
    /\ faults' = faults - 1
    /\ \E code \in HttpCodes :
        /\ code = 429 => n429 < Max429
        /\ catch_http_error(code, DefaultRetry)
    /\ UNCHANGED <<op, pc, outcome, kwargs, endpoint, wvars, reqs, frames>>

\* api_endpoint raises something else: not caught by line 365
ApiOtherError ==
    /\ Attempt
    /\ faults > 0
    /\ faults' = faults - 1
    /\ dpc' = "raise"
    /\ exc' = URLError
    /\ lastCode' = 0
    /\ slept' = <<>>
    /\ UNCHANGED <<op, pc, outcome, kwargs, endpoint, wait, dret, nSleeps,
                   prevWait, newWait, n429, wvars, reqs, frames>>

----------------------------------------------------------------------------
(* The public operations *)

Returned(v) == [kind |-> "return", val |-> v, exc |-> NoExc]
Raised(e) == [kind |-> "raise", val |-> None, exc |-> e]
Pending == [kind |-> "none", val |-> None, exc |-> NoExc]

\* a caller starts an operation: none is in progress
CanStart == pc = "idle"

\* `return results` in place of `break`: what the last dispatch returned
broken_walk_results(gathered, res) == res

\* `if not results: break` and the `return tweets` / `return items` after the
\* loop (lines 400-406, 426-433): the walker returns the list it gathered
broken_walk(gathered, res) == L(gathered)

\* the operation called, its arguments, and its locals before the first request
Begin(name, a) ==
    /\ op' = name
    /\ args' = a
    /\ results' = None
    /\ tweets' = <<>>
    /\ search' = 0
    /\ resps' = <<>>

\* self.endpoint_request(ep, **kw) called by the operation in progress
Request(ep, kw, rq, budget) ==
    /\ endpoint_request(ep, kw, budget)
    /\ reqs' = Append(rq, [endpoint |-> ep, kwargs |-> kw])
    /\ pc' = "dispatch"
    /\ outcome' = Pending
    /\ UNCHANGED frames

\* the operation ends: it returns or raises
Finish(o) ==
    /\ pc' = "done"
    /\ outcome' = o
    /\ UNCHANGED <<kwargs, dvars, reqs, frames>>

\* endpoint_request has returned v to the operation
Got == pc = "dispatch" /\ dpc = "ret"

\* an exception of endpoint_request: no operation catches it
Propagate ==
    /\ pc = "dispatch"
    /\ dpc = "raise"
    /\ Finish(Raised(exc))
    /\ UNCHANGED <<op, wvars>>

\* The endpoint arguments of the direct calls: a key of the registry, a string
\* that is no key, and None.
DirectEndpoints == {S("/statuses/update"), Bogus, None}

\* a direct call of endpoint_request, as post_status_update makes it
CallEndpointRequest ==
    /\ CanStart
    /\ \E ep \in DirectEndpoints :
         /\ Begin("endpoint_request", [endpoint |-> ep])
         /\ Request(ep, EmptyDict, <<>>, MaxFaults)
    /\ UNCHANGED <<cursor, items>>

ReturnEndpointRequest ==
    /\ Got
    /\ op = "endpoint_request"
    /\ resps' = Append(resps, dret)
    /\ Finish(Returned(dret))
    /\ UNCHANGED <<op, args, results, tweets, cursor, items, search>>

----------------------------------------------------------------------------
(* get_user_tweets and its wrappers *)

\* line 387
count == 200

\* max instead of min in line 397
MinId_max(page) == CHOOSE m \in {page[i].id : i \in DOMAIN page} :
                       \A j \in DOMAIN page : m >= page[j].id

\* min(tweet['id'] for tweet in results)
MinId(page) == CHOOSE m \in {page[i].id : i \in DOMAIN page} :
                   \A j \in DOMAIN page : m <= page[j].id

\* lines 391-397 with the tweets gathered not taken off: min(200, max_tweets)
user_tweets_kwargs_total(kw, tw, res, max_tweets) ==
    LET kw1 == Put(kw, "count",
                   IF Truthy(max_tweets)
                   THEN I(Min(count, max_tweets.v))
                   ELSE I(count))
    IN IF tw # <<>> THEN Put(kw1, "max_id", I(MinId(res.v) - 1)) ELSE kw1

\* lines 391-397 with max_id = min(...) and no - 1
user_tweets_kwargs_inclusive(kw, tw, res, max_tweets) ==
    LET kw1 == Put(kw, "count",
                   IF Truthy(max_tweets)
                   THEN I(Min(count, max_tweets.v - Len(tw)))
                   ELSE I(count))
    IN IF tw # <<>> THEN Put(kw1, "max_id", I(MinId(res.v))) ELSE kw1

\* lines 391-397: the keyword arguments of the next request
user_tweets_kwargs(kw, tw, res, max_tweets) ==
    LET kw1 == Put(kw, "count",
                   IF Truthy(max_tweets)
                   THEN I(Min(count, max_tweets.v - Len(tw)))
                   ELSE I(count))
    IN IF tw # <<>> THEN Put(kw1, "max_id", I(MinId(res.v) - 1)) ELSE kw1

\* max_tweets and len(tweets) > max_tweets: line 403 with > for >=
enough_tweets_strict(max_tweets, tw) == Truthy(max_tweets) /\ Len(tw) > max_tweets.v

\* max_tweets and len(tweets) >= max_tweets, line 403
enough_tweets(max_tweets, tw) == Truthy(max_tweets) /\ Len(tw) >= max_tweets.v

\* lines 382-399: the call up to the first request
get_user_tweets(name, ep, screen_name, user_id, max_tweets) ==
    LET kw == IF Truthy(screen_name) THEN Put(EmptyDict, "screen_name", screen_name)
              ELSE IF Truthy(user_id) THEN Put(EmptyDict, "user_id", user_id)
              ELSE EmptyDict
    IN /\ Begin(name, [endpoint |-> ep, screen_name |-> screen_name,
                       user_id |-> user_id, max_tweets |-> max_tweets])
       /\ Request(ep, user_tweets_kwargs(kw, <<>>, None, max_tweets), <<>>, WalkFaults)
       /\ UNCHANGED <<cursor, items>>

ScreenNames == {None, S("katyperry")}
UserIds == {None, I(7)}
\* the max_tweets arguments: absent, 0 (which `if max_tweets` takes for
\* absent), totals below, at and above a page, and one above the largest count
MaxTweets == {None} \cup {I(n) : n \in 0..(MaxPage + 1)} \cup {I(count + 1)}

\* line 511
get_user_timeline ==
    /\ CanStart
    /\ \E sn \in ScreenNames, uid \in UserIds, mt \in MaxTweets :
         get_user_tweets("get_user_timeline", S("/statuses/user_timeline"), sn, uid, mt)

\* line 526
get_user_favorites ==
    /\ CanStart
    /\ \E sn \in ScreenNames, mt \in MaxTweets :
         get_user_tweets("get_user_favorites", S("/favorites/list"), sn, None, mt)

\* line 496: max_tweets is passed in the position of screen_name
get_home_timeline ==
    /\ CanStart
    /\ \E mt \in MaxTweets :
         get_user_tweets("get_home_timeline", S("/statuses/home_timeline"), mt, None, None)

UserTweetsOps == {"get_user_timeline", "get_user_favorites", "get_home_timeline"}

\* lines 399-406 and, when the loop goes on, 391-399 of the next iteration
UserTweetsPage ==
    /\ Got
    /\ op \in UserTweetsOps
    /\ results' = dret
    /\ resps' = Append(resps, dret)
    /\ IF ~Truthy(dret)
       THEN tweets' = tweets /\ Finish(Returned(broken_walk(tweets, dret)))
       ELSE LET tw == tweets \o dret.v IN
            /\ tweets' = tw
            /\ IF enough_tweets(args.max_tweets, tw)
               THEN Finish(Returned(L(tw)))
               ELSE Request(args.endpoint,
                            user_tweets_kwargs(kwargs, tw, dret, args.max_tweets),
                            reqs, WalkFaults)
    /\ UNCHANGED <<op, args, cursor, items, search>>

----------------------------------------------------------------------------
(* get_cursored_items and get_connection_ids *)

\* the default of count, line 408
CursorCount == 5000

\* lines 424-425 with the cursor never advanced
cursored_request_first(ep, kw, c, rq) ==
    Request(ep, Put(kw, "cursor", I(-1)), rq, WalkFaults)

\* lines 424-425: the request of one iteration, made when `while cursor` holds
cursored_request(ep, kw, c, rq) ==
    Request(ep, Put(kw, "cursor", I(c)), rq, WalkFaults)

\* items = results[key] in place of line 429
extend_replace(lst, more) == more

\* items.extend(results[key]), line 429
extend(lst, more) == lst \o more

\* max_items and len(items) > max_items: line 430 with > for >=
enough_items_strict(max_items, its) == Truthy(max_items) /\ Len(its) > max_items.v

\* max_items and len(items) >= max_items, line 430
enough_items(max_items, its) == Truthy(max_items) /\ Len(its) >= max_items.v

\* lines 420-425: the call up to the first request (cursor = -1 is truthy)
get_cursored_items(name, ep, key, cnt, max_items, kw) ==
    /\ Begin(name, [endpoint |-> ep, key |-> key, max_items |-> max_items])
    /\ cursor' = -1
    /\ cursored_request(ep, Put(kw, "count", I(cnt)), -1, <<>>)
    /\ UNCHANGED items

\* the max_items arguments: absent, 0 (which `if max_items` takes for absent),
\* and totals below, at and above a page
MaxItems == {None} \cup {I(n) : n \in 0..(MaxPage + 1)}

\* a direct call, with the default count
CallGetCursoredItems ==
    /\ CanStart
    /\ \E ep \in {S("/followers/ids"), Bogus}, mi \in MaxItems :
         get_cursored_items("get_cursored_items", ep, "ids", CursorCount, mi, EmptyDict)

\* {'friends': ..., 'followers': ...}.get(which), line 569
ConnectionEndpoint(which) ==
    IF which = "friends" THEN S("/friends/ids")
    ELSE IF which = "followers" THEN S("/followers/ids")
    ELSE None

\* lines 569-576
get_connection_ids ==
    /\ CanStart
    /\ \E which \in {"friends", "followers", "blocked"},
          sn \in ScreenNames, uid \in UserIds, max_ids \in {None, I(MaxPage)} :
         LET kw == IF Truthy(sn) THEN Put(EmptyDict, "screen_name", sn)
                   ELSE IF Truthy(uid) THEN Put(EmptyDict, "user_id", uid)
                   ELSE EmptyDict
         IN get_cursored_items("get_connection_ids", ConnectionEndpoint(which),
                               "ids", CursorCount, max_ids, kw)

CursoredOps == {"get_cursored_items", "get_connection_ids"}

\* lines 425-433 and, when the loop goes on, 423-425 of the next iteration
CursoredPage ==
    /\ Got
    /\ op \in CursoredOps
    /\ results' = dret
    /\ resps' = Append(resps, dret)
    /\ IF ~Truthy(dret)
       THEN UNCHANGED <<tweets, cursor>> /\ Finish(Returned(broken_walk(tweets, dret)))
       ELSE LET its == extend(tweets, dret.v[args.key].v)
                nxt == dret.v["next_cursor"].v
            IN
            /\ tweets' = its
            /\ IF enough_items(args.max_items, its)
               THEN UNCHANGED cursor /\ Finish(Returned(L(its)))
               ELSE /\ cursor' = nxt
                    /\ IF nxt # 0
                       THEN cursored_request(args.endpoint, kwargs, nxt, reqs)
                       ELSE Finish(Returned(L(its)))
    /\ UNCHANGED <<op, args, items, search>>

----------------------------------------------------------------------------
(* get_items_by_lookup and its wrappers *)

\* line 452
items_max == 100

\* str(item): the items are numbers (ids) or strings (screen names)
Str(item) == IF item.t = "int" THEN ToString(item.v) ELSE item.v

\* ','.join(str(item) for item in chunk), line 455 (built by halves, to keep
\* the recursion shallow)
RECURSIVE Join(_)
Join(chunk) ==
    IF chunk = <<>> THEN ""
    ELSE IF Len(chunk) = 1 THEN Str(chunk[1])
    ELSE LET h == Len(chunk) \div 2
         IN Join(SubSeq(chunk, 1, h)) \o "," \o Join(SubSeq(chunk, h + 1, Len(chunk)))

\* items[:n]
Take(seq, n) == SubSeq(seq, 1, Min(n, Len(seq)))

\* items[n - 1:], one element too early
Drop_early(seq, n) == SubSeq(seq, n, Len(seq))

\* items[n:]
Drop(seq, n) == SubSeq(seq, n + 1, Len(seq))

\* `while items is not None` for line 454
has_items_not_none(its) == its # None

\* `while items`, line 454
has_items(its) == Truthy(its)

\* `if response is None` for line 458
no_response_none(response) == response = None

\* `if not response`, line 458
no_response(response) == ~Truthy(response)

\* lines 455-457: the request of one iteration, made when `while items` holds
lookup_request(ep, item_keyword, its, kw, rq) ==
    Request(ep, Put(kw, item_keyword, S(Join(Take(its.v, items_max)))), rq, WalkFaults)

\* lines 452-457: the call up to the first request, if there is one
get_items_by_lookup(name, ep, item_keyword, its) ==
    /\ Begin(name, [endpoint |-> ep, item_keyword |-> item_keyword, items |-> its])
    /\ items' = its
    /\ UNCHANGED cursor
    /\ IF has_items(its)
       THEN lookup_request(ep, item_keyword, its, EmptyDict, <<>>)
       ELSE Finish(Returned(L(<<>>)))

\* the lengths of the lists looked up
LookupSizes == {0, 1, items_max, items_max + 1, 2 * items_max + 50}
IdLists == {None} \cup { L([i \in 1..n |-> I(i)]) : n \in LookupSizes }
NameLists == {None, L(<<>>), L(<<S("katyperry"), S("BarackObama")>>)}

\* Python's `a or b`
Or(a, b) == IF Truthy(a) THEN a ELSE b

\* lines 539-541
get_user_profiles ==
    /\ CanStart
    /\ \E screen_names \in NameLists, user_ids \in {None, L(<<I(7)>>)} :
         get_items_by_lookup("get_user_profiles", S("/users/lookup"),
                             IF Truthy(screen_names) THEN "screen_name" ELSE "user_id",
                             Or(screen_names, user_ids))

\* line 552
get_tweets_by_id ==
    /\ CanStart
    /\ \E ids \in IdLists :
         get_items_by_lookup("get_tweets_by_id", S("/statuses/lookup"), "_id", ids)

LookupOps == {"get_user_profiles", "get_tweets_by_id"}

\* lines 457-463 and, when the loop goes on, 454-457 of the next iteration
LookupResponse ==
    /\ Got
    /\ op \in LookupOps
    /\ results' = dret
    /\ resps' = Append(resps, dret)
    /\ IF no_response(dret)
       THEN UNCHANGED <<tweets, items>> /\ Finish(Returned(L(tweets)))
       ELSE LET res == tweets \o dret.v
                rest == L(Drop(items.v, items_max))
            IN
            /\ tweets' = res
            /\ items' = rest
            /\ IF has_items(rest)
               THEN lookup_request(args.endpoint, args.item_keyword, rest, kwargs, reqs)
               ELSE Finish(Returned(L(res)))
    /\ UNCHANGED <<op, args, cursor, search>>

----------------------------------------------------------------------------
(* get_rate_limits, get_trend_locations, get_trends *)

\* the category and subcategory arguments
Categories == {None, S("statuses"), S("search"), S("nosuch")}
Subcategories == {None, S("/statuses/user_timeline"), S("/no/such")}

\* line 476
get_rate_limits ==
    /\ CanStart
    /\ \E key_0 \in Categories, key_1 \in Subcategories :
         Begin("get_rate_limits", [key_0 |-> key_0, key_1 |-> key_1])
    /\ Request(S("/application/rate_limit_status"), EmptyDict, <<>>, WalkFaults)
    /\ UNCHANGED <<cursor, items>>

\* `key in d` for a dict d with string keys
In(key, d) == key.t = "str" /\ key.v \in DOMAIN d.v

\* lines 477-485 without the test of line 479: limits = limits[key_0] at once
rate_limits_result_strict(limits, key_0, key_1) ==
    IF Truthy(limits)
    THEN LET resources == limits.v["resources"] IN
         IF In(key_0, resources)
         THEN LET category == resources.v[key_0.v] IN
              IF Truthy(key_1)
              THEN IF In(key_1, category) THEN Returned(category.v[key_1.v])
                   ELSE Raised(KeyError)
              ELSE Returned(category)
         ELSE Raised(KeyError)
    ELSE Returned(None)

\* lines 477-485
rate_limits_result(limits, key_0, key_1) ==
    IF Truthy(limits)
    THEN LET resources == limits.v["resources"] IN
         IF In(key_0, resources)
         THEN LET category == resources.v[key_0.v] IN
              IF Truthy(key_1)
              THEN IF In(key_1, category) THEN Returned(category.v[key_1.v])
                   ELSE Raised(KeyError)
              ELSE Returned(category)
         ELSE Returned(resources)
    ELSE Returned(None)

ReturnRateLimits ==
    /\ Got
    /\ op = "get_rate_limits"
    /\ results' = dret
    /\ resps' = Append(resps, dret)
    /\ Finish(rate_limits_result(dret, args.key_0, args.key_1))
    /\ UNCHANGED <<op, args, tweets, cursor, items, search>>

\* lines 596-601
get_trend_locations ==
    /\ CanStart
    /\ \E lat_lon \in {None, L(<<I(37), I(-122)>>)} :
         /\ Begin("get_trend_locations", [lat_lon |-> lat_lon])
         /\ IF Truthy(lat_lon)
            THEN Request(S("/trends/closest"),
                         [lat |-> lat_lon.v[1], long |-> lat_lon.v[2]], <<>>, WalkFaults)
            ELSE Request(S("/trends/available"), EmptyDict, <<>>, WalkFaults)
    /\ UNCHANGED <<cursor, items>>

ReturnTrendLocations ==
    /\ Got
    /\ op = "get_trend_locations"
    /\ results' = dret
    /\ resps' = Append(resps, dret)
    /\ Finish(Returned(dret))
    /\ UNCHANGED <<op, args, tweets, cursor, items, search>>

\* line 617 and the request of line 618
get_trends ==
    /\ CanStart
    /\ \E woeid \in {I(1), I(2459115)} :
         /\ Begin("get_trends", [woeid |-> woeid])
         /\ Request(S("/trends/place"), [_id |-> woeid], <<>>, WalkFaults)
    /\ UNCHANGED <<cursor, items>>

\* x[0]['trends'] of line 618: None is not subscriptable, an empty list has
\* no element 0
trends_result(x) ==
    IF x.t # "list" THEN Raised(TypeError)
    ELSE IF x.v = <<>> THEN Raised(IndexError)
    ELSE Returned(x.v[1].v["trends"])

ReturnTrends ==
    /\ Got
    /\ op = "get_trends"
    /\ results' = dret
    /\ resps' = Append(resps, dret)
    /\ Finish(trends_result(dret))
    /\ UNCHANGED <<op, args, tweets, cursor, items, search>>

----------------------------------------------------------------------------
(* search_tweets *)

\* the count of the first request, line 668
SearchCount == 100

\* s.split(sep) on a list of characters: the pieces between the separators
RECURSIVE Split(_, _)
Split(cs, sep) ==
    IF \A i \in DOMAIN cs : cs[i] # sep THEN <<cs>>
    ELSE LET i == CHOOSE k \in DOMAIN cs :
                      cs[k] = sep /\ \A j \in 1..(k - 1) : cs[j] # sep
         IN <<SubSeq(cs, 1, i - 1)>> \o Split(SubSeq(cs, i + 1, Len(cs)), sep)

\* the string of a list of characters
RECURSIVE Cat(_)
Cat(cs) == IF cs = <<>> THEN "" ELSE cs[1] \o Cat(Tail(cs))

\* line 676 with the leading '?' not cut off: next_results.split("&")
Pieces_whole(next_results) ==
    LET its == Split(next_results, "&")
    IN [i \in DOMAIN its |-> Split(its[i], "=")]

\* item.split('=') for item in next_results[1:].split("&"), line 676
Pieces(next_results) ==
    LET its == Split(SubSeq(next_results, 2, Len(next_results)), "&")
    IN [i \in DOMAIN its |-> Split(its[i], "=")]

\* dict(pairs): every element must have length 2 (else ValueError); of two
\* pairs with one key the later wins
DictOf(pairs) ==
    LET keys == { Cat(pairs[i][1]) : i \in DOMAIN pairs }
        last(k) == CHOOSE i \in DOMAIN pairs :
                       /\ Cat(pairs[i][1]) = k
                       /\ \A j \in DOMAIN pairs : Cat(pairs[j][1]) = k => j <= i
    IN [k \in keys |-> S(Cat(pairs[last(k)][2]))]

\* lines 671-679: what the head of a later iteration does with the previous
\* response: stop (KeyError caught), raise (ValueError of dict), or the kwargs
next_kwargs(res) ==
    IF ~In(S("search_metadata"), res)
       \/ ~In(S("next_results"), res.v["search_metadata"])
    THEN [act |-> "break", kwargs |-> EmptyDict]
    ELSE LET pairs == Pieces(res.v["search_metadata"].v["next_results"].v) IN
         IF \E i \in DOMAIN pairs : Len(pairs[i]) # 2
         THEN [act |-> "raise", kwargs |-> EmptyDict]
         ELSE [act |-> "request", kwargs |-> DictOf(pairs)]

\* the max_requests arguments
MaxRequests == {0, 1, 2, 3}

\* range(max_requests + 1) for line 670
last_search_late(srch, max_requests) == srch >= max_requests

\* `for search in range(max_requests)`, line 670: srch is the last index
last_search(srch, max_requests) == srch + 1 >= max_requests

\* lines 668-681: the call up to the first request, if there is one
search_tweets ==
    /\ CanStart
    /\ \E query \in {S("foo")}, max_requests \in MaxRequests :
         /\ Begin("search_tweets", [query |-> query, max_requests |-> max_requests])
         /\ IF max_requests > 0
            THEN Request(S("/search/tweets"),
                         [q |-> query, count |-> I(SearchCount)], <<>>, WalkFaults)
            ELSE Finish(Returned(L(<<>>)))
    /\ UNCHANGED <<cursor, items>>

\* lines 681-686 and, when the loop goes on, 670-681 of the next iteration
SearchPage ==
    /\ Got
    /\ op = "search_tweets"
    /\ results' = dret
    /\ resps' = Append(resps, dret)
    /\ IF dret.t # "dict"
       THEN UNCHANGED <<tweets, search>> /\ Finish(Raised(TypeError))
       ELSE IF ~Truthy(dret.v["statuses"])
       THEN UNCHANGED <<tweets, search>> /\ Finish(Returned(L(tweets)))
       ELSE LET tw == tweets \o dret.v["statuses"].v
                nxt == next_kwargs(dret)
            IN
            /\ tweets' = tw
            /\ IF last_search(search, args.max_requests)
               THEN UNCHANGED search /\ Finish(Returned(L(tw)))
               ELSE /\ search' = search + 1
                    /\ IF nxt.act = "break" THEN Finish(Returned(L(tw)))
                       ELSE IF nxt.act = "raise" THEN Finish(Raised(ValueError))
                       ELSE Request(S("/search/tweets"), nxt.kwargs, reqs, WalkFaults)
    /\ UNCHANGED <<op, args, cursor, items>>

----------------------------------------------------------------------------
(* Two threads that call endpoint_request on one TwitterTools object *)

Threads == {1, 2}

\* the variables of the one-caller specification
seqvars == <<op, pc, outcome, kwargs, dvars, wvars, reqs>>

\* the locals of a thread that has not called yet
NoFrame == [dpc |-> "off", wait |-> Num(0), faults |-> 0, lastCode |-> 0]

\* the wait kept on the object (self.wait = ...): one for all the calls
store_wait_shared(fr, t, w) == [u \in DOMAIN fr |-> [fr[u] EXCEPT !.wait = w]]

\* wait = ..., lines 361 and 366: wait is a local of the call, here thread t's
store_wait(fr, t, w) == [fr EXCEPT ![t].wait = w]

\* thread t calls endpoint_request with an endpoint of the registry: lines
\* 359-361.  What its frame held from an earlier call is gone.
ThreadCalls(t) ==
    /\ frames[t].dpc # "run"
    /\ frames' = store_wait([frames EXCEPT ![t].dpc = "run",
                                           ![t].faults = ThreadFaults,
                                           ![t].lastCode = 0], t, Num(1))
    /\ UNCHANGED seqvars

\* line 364 in thread t: api_endpoint returns, and so does endpoint_request
ThreadApiReturns(t) ==
    /\ frames[t].dpc = "run"
    /\ frames' = [frames EXCEPT ![t].dpc = "ret", ![t].lastCode = 0]
    /\ UNCHANGED seqvars

\* lines 365-366 and 362 in thread t: api_endpoint raises TwitterHTTPError
ThreadApiHttpError(t) ==
    /\ frames[t].dpc = "run"
    /\ frames[t].faults > 0
    /\ \E code \in HttpCodes :
        LET h == handle_http_error(code, frames[t].wait, DefaultRetry) IN
        IF h.raised
        THEN frames' = [frames EXCEPT ![t].dpc = "raise",
                                      ![t].faults = @ - 1,
                                      ![t].lastCode = code]
        ELSE frames' = store_wait(
                 [frames EXCEPT ![t].dpc = IF h.wait.num # 0 THEN "run" ELSE "ret",
                                ![t].faults = @ - 1,
                                ![t].lastCode = code], t, h.wait)
    /\ UNCHANGED seqvars

\* line 364 in thread t: api_endpoint raises something else
ThreadApiOtherError(t) ==
    /\ frames[t].dpc = "run"
    /\ frames[t].faults > 0
    /\ frames' = [frames EXCEPT ![t].dpc = "raise",
                                ![t].faults = @ - 1,
                                ![t].lastCode = 0]
    /\ UNCHANGED seqvars

----------------------------------------------------------------------------
(* The caller *)

\* The caller takes the result; nothing of the operation outlives it but the
\* registry.  The wait of the finished endpoint_request is left as it was, to
\* show that the next one does not read it.
TakeResult ==
    /\ pc = "done"
    /\ op' = "idle"
    /\ pc' = "idle"
    /\ outcome' = Pending
    /\ endpoint' = None
    /\ kwargs' = EmptyDict
    /\ dpc' = "off"
    /\ dret' = None
    /\ exc' = NoExc
    /\ faults' = 0
    /\ netCalls' = 0
    /\ nSleeps' = 0
    /\ lastCode' = 0
    /\ prevWait' = Num(0)
    /\ newWait' = Num(0)
    /\ slept' = <<>>
    /\ n429' = 0
    /\ retries429' = 0
    /\ args' = EmptyDict
    /\ results' = None
    /\ tweets' = <<>>
    /\ cursor' = 0
    /\ items' = None
    /\ search' = 0
    /\ reqs' = <<>>
    /\ resps' = <<>>
    /\ UNCHANGED <<wait, frames>>

----------------------------------------------------------------------------

Init ==
    /\ op = "idle"
    /\ pc = "idle"
    /\ outcome = Pending
    /\ endpoint = None
    /\ kwargs = EmptyDict
    /\ dpc = "off"
    /\ wait = Num(0)
    /\ dret = None
    /\ exc = NoExc
    /\ faults = 0
    /\ netCalls = 0
    /\ nSleeps = 0
    /\ lastCode = 0
    /\ prevWait = Num(0)
    /\ newWait = Num(0)
    /\ slept = <<>>
    /\ n429 = 0
    /\ retries429 = 0
    /\ args = EmptyDict
    /\ results = None
    /\ tweets = <<>>
    /\ cursor = 0
    /\ items = None
    /\ search = 0
    /\ reqs = <<>>
    /\ resps = <<>>
    /\ frames = [t \in Threads |-> NoFrame]

Next ==
    \/ ApiReturns
    \/ ApiHttpError
    \/ ApiOtherError
    \/ Propagate
    \/ CallEndpointRequest
    \/ ReturnEndpointRequest
    \/ get_user_timeline
    \/ get_user_favorites
    \/ get_home_timeline
    \/ UserTweetsPage
    \/ CallGetCursoredItems
    \/ get_connection_ids
    \/ CursoredPage
    \/ get_user_profiles
    \/ get_tweets_by_id
    \/ LookupResponse
    \/ get_rate_limits
    \/ ReturnRateLimits
    \/ get_trend_locations
    \/ ReturnTrendLocations
    \/ get_trends
    \/ ReturnTrends
    \/ search_tweets
    \/ SearchPage
    \/ TakeResult

Spec == Init /\ [][Next]_vars

----------------------------------------------------------------------------
(* handle_http_error by itself *)

\* the waits endpoint_request can hold when it calls the handler: 1, and what
\* line 350 makes of a wait as long as line 351 lets it return
RECURSIVE WaitsFrom(_)
WaitsFrom(w) == IF Less(w, Ceiling) THEN {w} \cup WaitsFrom(Times15(w)) ELSE {}

\* an endpoint_request in its loop, line 364, with any such wait; the handler
\* will be called with the retry of args
HandlerInit ==
    /\ op = "handle_http_error"
    /\ pc = "dispatch"
    /\ outcome = Pending
    /\ endpoint = S("/statuses/update")
    /\ kwargs = EmptyDict
    /\ dpc = "run"
    /\ wait \in WaitsFrom(Num(1))
    /\ dret = None
    /\ exc = NoExc
    /\ faults = 1
    /\ netCalls = 0
    /\ nSleeps = 0
    /\ lastCode = 0
    /\ prevWait = Num(0)
    /\ newWait = Num(0)
    /\ slept = <<>>
    /\ n429 = 0
    /\ retries429 = 0
    /\ args \in {[retry |-> r] : r \in BOOLEAN}
    /\ results = None
    /\ tweets = <<>>
    /\ cursor = 0
    /\ items = None
    /\ search = 0
    /\ reqs = <<>>
    /\ resps = <<>>
    /\ frames = [t \in Threads |-> NoFrame]

\* lines 364-366 and 362: the call raises TwitterHTTPError, the handler is
\* applied once, with retry as given
ApplyHandler ==
    /\ op = "handle_http_error"
    /\ Attempt
    /\ faults > 0
    /\ faults' = faults - 1
    /\ \E code \in HttpCodes : catch_http_error(code, args.retry)
    /\ UNCHANGED <<op, pc, outcome, kwargs, endpoint, wvars, reqs, frames>>

HandlerNext == ApplyHandler

HandlerSpec == HandlerInit /\ [][HandlerNext]_vars

----------------------------------------------------------------------------
(* One endpoint_request followed to its end, whatever the server answers *)

\* endpoint_request('/statuses/update') at the head of its loop, lines 359-362
LoopInit ==
    /\ op = "endpoint_request"
    /\ pc = "dispatch"
    /\ outcome = Pending
    /\ endpoint = S("/statuses/update")
    /\ kwargs = EmptyDict
    /\ dpc = "run"
    /\ wait = Num(1)
    /\ dret = None
    /\ exc = NoExc
    /\ faults = 0
    /\ netCalls = 0
    /\ nSleeps = 0
    /\ lastCode = 0
    /\ prevWait = Num(0)
    /\ newWait = Num(0)
    /\ slept = <<>>
    /\ n429 = 0
    /\ retries429 = 0
    /\ args = [endpoint |-> S("/statuses/update")]
    /\ results = None
    /\ tweets = <<>>
    /\ cursor = 0
    /\ items = None
    /\ search = 0
    /\ reqs = <<[endpoint |-> S("/statuses/update"), kwargs |-> EmptyDict]>>
    /\ resps = <<>>
    /\ frames = [t \in Threads |-> NoFrame]

\* what no step of the loop changes
loopfixed == <<op, pc, outcome, endpoint, kwargs, faults, netCalls, nSleeps, n429,
               retries429, wvars, reqs, frames>>

\* line 364: api_endpoint returns and endpoint_request with it
LoopReturns ==
    /\ dpc = "run"
    /\ \E p \in ServerPayloads(endpoint, kwargs, 1) : dret' = p
    /\ dpc' = "ret"
    /\ lastCode' = 0
    /\ slept' = <<>>
    /\ UNCHANGED <<wait, exc, prevWait, newWait, loopfixed>>

\* lines 364-366: api_endpoint raises TwitterHTTPError, with any status, and
\* the handler is entered with the wait of the loop
LoopCatches ==
    /\ dpc = "run"
    /\ \E code \in HttpCodes : lastCode' = code
    /\ dpc' = "caught"
    /\ prevWait' = wait
    /\ slept' = <<>>
    /\ UNCHANGED <<wait, dret, exc, newWait, loopfixed>>

\* lines 330-355, 366 and 362: the handler sleeps if it does, and returns the
\* wait that `while wait` tests, or raises
LoopHandles ==
    /\ dpc = "caught"
    /\ LET h == handle_http_error(lastCode, wait, DefaultRetry) IN
       /\ newWait' = h.wait
       /\ slept' = h.slept
       /\ IF h.raised
          THEN dpc' = "raise" /\ exc' = HTTPError(lastCode) /\ UNCHANGED wait
          ELSE /\ wait' = h.wait
               /\ dpc' = IF h.wait.num # 0 THEN "run" ELSE "ret"
               /\ UNCHANGED exc
    /\ UNCHANGED <<dret, lastCode, prevWait, loopfixed>>

\* line 364: api_endpoint raises something that line 365 does not catch
LoopOtherError ==
    /\ dpc = "run"
    /\ dpc' = "raise"
    /\ exc' = URLError
    /\ lastCode' = 0
    /\ slept' = <<>>
    /\ UNCHANGED <<wait, dret, prevWait, newWait, loopfixed>>

LoopNext ==
    \/ LoopReturns
    \/ LoopCatches
    \/ LoopHandles
    \/ LoopOtherError

\* The call of api_endpoint ends (it returns or raises) and so does every
\* sleep: while endpoint_request has not ended, it takes its next step.
LoopSpec == LoopInit /\ [][LoopNext]_vars /\ WF_vars(LoopNext)

----------------------------------------------------------------------------
(* The timeline walks, each followed to its end *)

WalkNext ==
    \/ get_user_timeline
    \/ get_user_favorites
    \/ get_home_timeline
    \/ UserTweetsPage
    \/ ApiReturns
    \/ ApiHttpError
    \/ ApiOtherError
    \/ Propagate
    \/ TakeResult

\* Every dispatch ends (the server's errors are bounded, each call of
\* api_endpoint and each sleep ends) and the walker runs on between them.
WalkSpec == Init /\ [][WalkNext]_vars /\ WF_vars(WalkNext)

----------------------------------------------------------------------------
(* Two threads *)

ThreadsNext ==
    \E t \in Threads :
        \/ ThreadCalls(t)
        \/ ThreadApiReturns(t)
        \/ ThreadApiHttpError(t)
        \/ ThreadApiOtherError(t)

ThreadsSpec == Init /\ [][ThreadsNext]_vars

----------------------------------------------------------------------------
(* Properties of the dispatcher *)

\* the statuses handle_http_error has a branch for
Handled == {401, 403, 404, 429, 500, 502, 503, 504}

\* C1: an endpoint that is no key of the registry makes endpoint_request fail
\* with the lookup error (KeyError) before any call of an endpoint callable
\* and any sleep, and the operation that asked for it ends with that error;
\* so does get_connection_ids with a `which` that names no endpoint.
C1_UnknownEndpointFailsFast ==
    \A i \in DOMAIN reqs :
        (reqs[i].endpoint.t # "str" \/ reqs[i].endpoint.v \notin EndpointNames) =>
            /\ i = Len(reqs)
            /\ endpoint = reqs[i].endpoint
            /\ dpc = "raise"
            /\ exc = KeyError
            /\ netCalls = 0
            /\ nSleeps = 0
            /\ Len(resps) = i - 1
            /\ pc = "done" => outcome = Raised(KeyError)

\* C1, reached: get_connection_ids(which='blocked') has ended with the lookup
\* error for the endpoint None
C1_Witness ==
    /\ op = "get_connection_ids"
    /\ pc = "done"
    /\ endpoint = None
    /\ outcome = Raised(KeyError)
    /\ netCalls = 0

\* C2: a 401, 403 or 404 ends endpoint_request at once: no sleep, the loop
\* left (wait = 0) with that call as the last, and None returned, not raised.
C2_ClientErrorReturnsNone ==
    lastCode \in {401, 403, 404} =>
        /\ dpc = "ret"
        /\ dret = None
        /\ exc = NoExc
        /\ wait = Num(0)
        /\ slept = <<>>
        /\ (op = "endpoint_request" /\ pc = "done") => outcome = Returned(None)

\* C2, reached: a 404 after earlier retried attempts, returned as None
C2_Witness ==
    /\ lastCode = 404
    /\ netCalls > 1
    /\ op = "endpoint_request"
    /\ pc = "done"
    /\ outcome = Returned(None)

\* C3: after a 429 the dispatcher has slept once, 900 seconds, and is in the
\* loop again with wait = 1, whatever the wait was before.
C3_RateLimitCooldown ==
    lastCode = 429 =>
        /\ dpc = "run"
        /\ slept = <<Num(900)>>
        /\ wait = Num(1)
        /\ newWait = Num(1)

\* C3, reached: a 429 that came after 5xx backoff steps (the wait was above 1)
C3_Witness ==
    /\ lastCode = 429
    /\ Less(Num(2), prevWait)
    /\ wait = Num(1)

\* C4: on a 5xx the dispatcher sleeps the current wait once, the wait becomes
\* 1.5 times the previous one, and the error is re-raised exactly when that
\* new wait is above 1800; otherwise the loop goes on with the new wait.
C4_ServerErrorBackoff ==
    lastCode \in {500, 502, 503, 504} =>
        /\ slept = <<prevWait>>
        /\ newWait.num = 3 * prevWait.num
        /\ newWait.den = 2 * prevWait.den
        /\ (dpc = "raise") <=> Less(Num(1800), newWait)
        /\ dpc = "raise" => exc = HTTPError(lastCode) /\ wait = prevWait
        /\ dpc # "raise" => dpc = "run" /\ wait = newWait

\* C4, reached: a run of 5xx responses that ended with the error re-raised
C4_Witness ==
    /\ lastCode \in {500, 502, 503, 504}
    /\ dpc = "raise"
    /\ n429 = 0
    /\ netCalls > 2

\* C5: an HTTP error with a status that has no branch is re-raised at once,
\* with no sleep and no new wait, and an exception that is no HTTP error
\* leaves endpoint_request from the attempt that raised it; either reaches
\* the caller of the operation as it is.
C5_OtherErrorsRaised ==
    /\ (lastCode # 0 /\ lastCode \notin Handled) =>
            /\ dpc = "raise"
            /\ exc = HTTPError(lastCode)
            /\ slept = <<>>
            /\ wait = prevWait
    /\ exc = URLError => dpc = "raise" /\ slept = <<>>
    /\ (pc = "done" /\ dpc = "raise") => outcome = Raised(exc)

\* C5, reached: a 400 on a later attempt, raised to the caller
C5_Witness ==
    /\ lastCode = 400
    /\ netCalls > 1
    /\ pc = "done"
    /\ outcome = Raised(HTTPError(400))

\* C6 as stated: one endpoint_request makes at most one attempt on account of
\* 429 responses.
C6_AtMostOne429Retry == retries429 <= 1

\* C6, amended: every 429 is followed by one 900 second sleep and one more
\* attempt, so the attempts made on account of 429 responses are as many as
\* the 429 responses received.
C6_OneRetryPer429 ==
    /\ lastCode = 429 => dpc = "run" /\ slept = <<Num(900)>>
    /\ retries429 = IF lastCode = 429 THEN n429 - 1 ELSE n429

\* C6, reached: a second retry on account of a 429 in one endpoint_request
C6_Witness == retries429 = 2 /\ n429 = 2

----------------------------------------------------------------------------
(* Properties of the public operations *)

\* C7: when a request of a retrieval operation got a 401, 403 or 404, the
\* operation ends by returning (None, or what it gathered), never by raising.
C7_ClientErrorIsAbsence ==
    (pc = "done" /\ lastCode \in {401, 403, 404}) => outcome.kind = "return"

\* the ids of a page of tweets
Ids(page) == { page.v[i].id : i \in DOMAIN page.v }

\* C8: the first request of get_user_tweets has no max_id, every later one
\* has max_id = (smallest id of the page before) - 1; with the server
\* honouring max_id, max_id decreases from request to request and every id of
\* a later page is below every id of an earlier one.
C8_MaxIdWalk ==
    op \in {"get_user_timeline", "get_user_favorites", "get_home_timeline"} =>
        /\ \A i \in DOMAIN reqs :
            IF i = 1 THEN "max_id" \notin DOMAIN reqs[i].kwargs
            ELSE /\ "max_id" \in DOMAIN reqs[i].kwargs
                 /\ \E m \in Ids(resps[i - 1]) :
                      /\ \A x \in Ids(resps[i - 1]) : m <= x
                      /\ reqs[i].kwargs["max_id"] = I(m - 1)
        /\ \A i, j \in DOMAIN reqs :
            (1 < i /\ i < j) => reqs[j].kwargs["max_id"].v < reqs[i].kwargs["max_id"].v
        /\ \A i, j \in DOMAIN resps :
            (i < j /\ resps[j].t = "list") =>
                \A a \in Ids(resps[i]), b \in Ids(resps[j]) : b < a

\* C8, reached: a third request, after two pages
C8_Witness ==
    /\ op = "get_user_timeline"
    /\ Len(reqs) = 3
    /\ Len(resps) = 3
    /\ resps[3].t = "list"
    /\ resps[3].v # <<>>

\* the lists of a sequence of responses, one after the other
RECURSIVE Flatten(_)
Flatten(rs) ==
    IF rs = <<>> THEN <<>>
    ELSE (IF rs[1].t = "list" THEN rs[1].v ELSE <<>>) \o Flatten(Tail(rs))

\* get_user_tweets is to stop after the responses rs: the last is empty or
\* absent, or a max_tweets is given (not None, not 0) and they hold that many
\* items or more
StopsAfter(rs, max_tweets) ==
    \/ ~Truthy(rs[Len(rs)])
    \/ (max_tweets.t = "int" /\ max_tweets.v # 0 /\ Len(Flatten(rs)) >= max_tweets.v)

\* C9: get_user_tweets asks for another page exactly when the last page was
\* not empty or absent and fewer than max_tweets items are gathered, and it
\* returns what it stopped with: all the pages whole, in the order received.
C9_StopsAndKeepsPages ==
    (op \in {"get_user_timeline", "get_user_favorites", "get_home_timeline"}
     /\ pc # "idle") =>
        /\ tweets = Flatten(resps)
        /\ \A i \in 1..Len(resps) :
            StopsAfter(SubSeq(resps, 1, i), args.max_tweets) <=> Len(reqs) = i
        /\ Len(reqs) \in {Len(resps), Len(resps) + 1}
        /\ (pc = "done" /\ dpc = "ret") =>
            /\ Len(reqs) = Len(resps)
            /\ outcome = Returned(L(Flatten(resps)))

\* C9, reached: two whole pages of MaxPage tweets and max_tweets one below
\* their total: two requests, and both pages returned in order
C9_Witness ==
    /\ op = "get_user_timeline"
    /\ pc = "done"
    /\ args.max_tweets = I(3)
    /\ Len(reqs) = 2
    /\ resps = <<L(<<Tweet(4), Tweet(3)>>), L(<<Tweet(2), Tweet(1)>>)>>
    /\ outcome = Returned(L(<<Tweet(4), Tweet(3), Tweet(2), Tweet(1)>>))

\* the items under `key` of a sequence of cursored responses, one after the other
RECURSIVE FlattenKey(_, _)
FlattenKey(rs, key) ==
    IF rs = <<>> THEN <<>>
    ELSE (IF rs[1].t = "dict" THEN rs[1].v[key].v ELSE <<>>) \o FlattenKey(Tail(rs), key)

\* C10: the first request of get_cursored_items has cursor -1 and every later
\* one the next_cursor of the response before; with no max_items and no
\* absent response, it returns after the first response with next_cursor 0,
\* having made as many requests as it got responses, and returns the items
\* under `key` of all of them in order.
C10_CursorWalk ==
    op \in {"get_cursored_items", "get_connection_ids"} =>
        /\ \A i \in DOMAIN reqs :
            reqs[i].kwargs["cursor"] =
                IF i = 1 THEN I(-1) ELSE resps[i - 1].v["next_cursor"]
        /\ (pc = "done" /\ outcome.kind = "return" /\ args.max_items = None
            /\ \A i \in DOMAIN resps : resps[i].t = "dict") =>
                /\ resps # <<>>
                /\ \A i \in DOMAIN resps :
                    (resps[i].v["next_cursor"] = I(0)) <=> (i = Len(resps))
                /\ Len(reqs) = Len(resps)
                /\ outcome.val = L(FlattenKey(resps, args.key))

\* C10, reached: the cursors -1, 7, 0: two requests, both pages' items in order
C10_Witness ==
    /\ op = "get_cursored_items"
    /\ pc = "done"
    /\ args.max_items = None
    /\ Len(reqs) = 2
    /\ Len(resps) = 2
    /\ reqs[1].kwargs["cursor"] = I(-1)
    /\ reqs[2].kwargs["cursor"] = I(7)
    /\ outcome = Returned(L(<<I(11), I(12), I(21), I(22)>>))
    /\ resps[2].v["next_cursor"] = I(0)

\* get_cursored_items is to stop after the responses rs: the last is absent
\* (or empty), or a max_items is given (not None, not 0) and they hold that
\* many items or more, or the last next_cursor is 0
CursorStopsAfter(rs, key, max_items) ==
    \/ ~Truthy(rs[Len(rs)])
    \/ (max_items.t = "int" /\ max_items.v # 0 /\ Len(FlattenKey(rs, key)) >= max_items.v)
    \/ rs[Len(rs)].v["next_cursor"] = I(0)

\* C11: after each response get_cursored_items makes another request exactly
\* when none of these holds: the response is absent, the items gathered are
\* max_items or more, the response's next_cursor is 0.
C11_CursorStopRule ==
    (op \in {"get_cursored_items", "get_connection_ids"} /\ pc # "idle") =>
        /\ tweets = FlattenKey(resps, args.key)
        /\ Len(reqs) \in {Len(resps), Len(resps) + 1}
        /\ \A i \in 1..Len(resps) :
            CursorStopsAfter(SubSeq(resps, 1, i), args.key, args.max_items)
                <=> Len(reqs) = i
        /\ (pc = "done" /\ dpc = "ret") => Len(reqs) = Len(resps)

\* C11, reached: stopped by max_items = 3 after two pages of 2, with the
\* next_cursor of the last one not 0
C11_Witness ==
    /\ op = "get_cursored_items"
    /\ pc = "done"
    /\ args.max_items = I(3)
    /\ Len(reqs) = 2
    /\ Len(resps) = 2
    /\ outcome = Returned(L(<<I(11), I(12), I(21), I(22)>>))
    /\ resps[2].v["next_cursor"] = I(7)

\* the number of chunks of at most 100 of a list of n items
Chunks(n) == (n + 99) \div 100

\* the list looked up (None, when the caller gave none, is no item)
Requested == IF args.items.t = "list" THEN args.items.v ELSE <<>>

\* C12: request i of get_items_by_lookup carries, under item_keyword and as
\* its only argument, items 100(i-1)+1 .. min(100i, n) of the n items asked
\* for, joined by commas in their order; there are never more than
\* ceil(n/100) requests, and exactly that many when no response was empty or
\* absent; the result is then the responses one after the other.
C12_LookupChunks ==
    (op \in {"get_user_profiles", "get_tweets_by_id"} /\ pc # "idle") =>
        LET n == Len(Requested) IN
        /\ Len(reqs) <= Chunks(n)
        /\ \A i \in DOMAIN reqs :
            /\ reqs[i].endpoint = args.endpoint
            /\ DOMAIN reqs[i].kwargs = {args.item_keyword}
            /\ reqs[i].kwargs[args.item_keyword] =
                   S(Join(SubSeq(Requested, 100 * (i - 1) + 1, Min(100 * i, n))))
        /\ (args.items = L(<<S("katyperry"), S("BarackObama")>>) /\ reqs # <<>>) =>
               reqs[1].kwargs = [screen_name |-> S("katyperry,BarackObama")]
        /\ (n = 101 /\ Len(reqs) = 2) => reqs[2].kwargs = [_id |-> S("101")]
        /\ tweets = Flatten(resps)
        /\ (pc = "done" /\ outcome.kind = "return"
            /\ \A i \in DOMAIN resps : Truthy(resps[i])) =>
               /\ Len(reqs) = Chunks(n)
               /\ Len(resps) = Chunks(n)
               /\ outcome.val = L(Flatten(resps))

\* C12, reached: 250 ids looked up in three requests, the third for the ids
\* 201 to 250, and the three responses returned as one list
C12_Witness ==
    /\ op = "get_tweets_by_id"
    /\ pc = "done"
    /\ Len(Requested) = 250
    /\ Len(reqs) = 3
    /\ Len(resps) = 3
    /\ \A i \in 1..3 : Truthy(resps[i])
    /\ reqs[3].kwargs["_id"] =
        S("201,202,203,204,205,206,207,208,209,210,211,212,213,214,215," \o
          "216,217,218,219,220,221,222,223,224,225,226,227,228,229,230," \o
          "231,232,233,234,235,236,237,238,239,240,241,242,243,244,245," \o
          "246,247,248,249,250")
    /\ outcome.kind = "return"
    /\ Len(outcome.val.v) = Len(resps[1].v) + Len(resps[2].v) + Len(resps[3].v)

\* C13: a response of get_items_by_lookup that is None or an empty list is
\* its last: no request follows it, and the operation has returned, not
\* raised, the responses before it, one after the other.
C13_LookupStopsEarly ==
    op \in {"get_user_profiles", "get_tweets_by_id"} =>
        \A i \in DOMAIN resps :
            (resps[i] = None \/ resps[i] = L(<<>>)) =>
                /\ i = Len(resps)
                /\ Len(reqs) = i
                /\ pc = "done"
                /\ outcome = Returned(L(Flatten(SubSeq(resps, 1, i - 1))))

\* C13, reached: 250 ids, the second chunk answered with an empty list: two
\* requests, and the first response returned
C13_Witness ==
    /\ op = "get_tweets_by_id"
    /\ Len(Requested) = 250
    /\ Len(reqs) = 2
    /\ resps = <<L(<<I(11), I(12)>>), L(<<>>)>>
    /\ outcome = Returned(L(<<I(11), I(12)>>))

\* the fragment ?max_id=5&q=foo
ExampleFragment ==
    Chars(<<"?", "m", "a", "x", "_", "i", "d", "=", "5", "&", "q", "=", "f", "o", "o">>)

\* the search_metadata of a response of /search/tweets
Metadata(r) == r.v["search_metadata"].v

\* C14: the first request of search_tweets carries {q: query, count: 100};
\* every later request follows a response with a next_results fragment and
\* carries the parameters parsed from it and no others (for ?max_id=5&q=foo:
\* max_id "5" and q "foo", no count); a response with statuses and no
\* fragment is the last, and the operation returns all the statuses in order.
C14_SearchContinuation ==
    op = "search_tweets" =>
        /\ \A i \in DOMAIN reqs :
            /\ reqs[i].endpoint = S("/search/tweets")
            /\ IF i = 1
               THEN reqs[i].kwargs = [q |-> args.query, count |-> I(100)]
               ELSE /\ "next_results" \in DOMAIN Metadata(resps[i - 1])
                    /\ reqs[i].kwargs =
                           DictOf(Pieces(Metadata(resps[i - 1])["next_results"].v))
                    /\ Metadata(resps[i - 1])["next_results"] = ExampleFragment =>
                           reqs[i].kwargs = [max_id |-> S("5"), q |-> S("foo")]
        /\ \A i \in DOMAIN resps :
            (/\ resps[i].t = "dict"
             /\ resps[i].v["statuses"].v # <<>>
             /\ "next_results" \notin DOMAIN Metadata(resps[i])) =>
                /\ i = Len(resps)
                /\ Len(reqs) = i
                /\ pc = "done"
                /\ outcome = Returned(L(FlattenKey(resps, "statuses")))

\* C14, reached: a first response with ?max_id=5&q=foo, a second with no
\* fragment: two requests, and the statuses of both returned
C14_Witness ==
    /\ op = "search_tweets"
    /\ pc = "done"
    /\ args.max_requests = 3
    /\ Len(reqs) = 2
    /\ Len(resps) = 2
    /\ Metadata(resps[1])["next_results"] = ExampleFragment
    /\ reqs[2].kwargs = [max_id |-> S("5"), q |-> S("foo")]
    /\ resps[2].t = "dict"
    /\ "next_results" \notin DOMAIN Metadata(resps[2])
    /\ outcome = Returned(L(<<I(11), I(12), I(21), I(22)>>))

\* C15: search_tweets makes at most max_requests requests (none for 0), and
\* none after a response with an empty statuses list.
C15_SearchBounded ==
    op = "search_tweets" =>
        /\ Len(reqs) <= args.max_requests
        /\ \A i \in DOMAIN resps :
            (resps[i].t = "dict" /\ resps[i].v["statuses"].v = <<>>) =>
                /\ Len(reqs) = i
                /\ pc = "done"
                /\ outcome = Returned(L(FlattenKey(SubSeq(resps, 1, i - 1), "statuses")))

\* C15, reached: max_requests = 2 ends the walk although the second response
\* has statuses and a fragment for a third request
C15_Witness ==
    /\ op = "search_tweets"
    /\ pc = "done"
    /\ args.max_requests = 2
    /\ Len(reqs) = 2
    /\ Len(resps) = 2
    /\ resps[2].t = "dict"
    /\ resps[2].v["statuses"].v # <<>>
    /\ "next_results" \in DOMAIN Metadata(resps[2])
    /\ Metadata(resps[2])["next_results"] = ExampleFragment
    /\ outcome.kind = "return"

\* a fragment is malformed: cut after its '?' at every '&', some piece has no
\* '=' or more than one
Malformed(f) ==
    LET its == Split(SubSeq(f.v, 2, Len(f.v)), "&")
    IN \E i \in DOMAIN its : Cardinality({k \in DOMAIN its[i] : its[i][k] = "="}) # 1

\* C16: when search_tweets has ended after a response with statuses and a
\* malformed fragment, it has returned the statuses gathered, not raised.
C16_MalformedFragmentStops ==
    (/\ op = "search_tweets"
     /\ pc = "done"
     /\ Len(resps) = Len(reqs)
     /\ resps # <<>>
     /\ resps[Len(resps)].t = "dict"
     /\ resps[Len(resps)].v["statuses"].v # <<>>
     /\ "next_results" \in DOMAIN Metadata(resps[Len(resps)])
     /\ Malformed(Metadata(resps[Len(resps)])["next_results"])) =>
        outcome = Returned(L(FlattenKey(resps, "statuses")))

\* the resources of a response of /application/rate_limit_status
Resources(r) == r.v["resources"]

\* the category is a key of the resources of r: it is given and is one
Known(r, key_0) == key_0 # None /\ key_0.v \in DOMAIN Resources(r).v

\* C17 as stated: get_rate_limits makes one request and returns None, the
\* resources, the category's mapping or, whenever a subcategory is given with
\* a known category, the subcategory's entry of that mapping.
C17_RateLimitsAlwaysReturns ==
    (op = "get_rate_limits" /\ pc = "done" /\ Len(resps) = 1) =>
        /\ Len(reqs) = 1
        /\ outcome.kind = "return"
        /\ IF resps[1] = None THEN outcome.val = None
           ELSE IF ~Known(resps[1], args.key_0) THEN outcome.val = Resources(resps[1])
           ELSE IF args.key_1 = None
                THEN outcome.val = Resources(resps[1]).v[args.key_0.v]
           ELSE /\ args.key_1.v \in DOMAIN Resources(resps[1]).v[args.key_0.v].v
                /\ outcome.val = Resources(resps[1]).v[args.key_0.v].v[args.key_1.v]

\* C17, amended: the same, but a subcategory that is no key of the known
\* category's mapping makes get_rate_limits raise KeyError.
C17_RateLimits ==
    (op = "get_rate_limits" /\ pc # "idle") =>
        /\ reqs = <<[endpoint |-> S("/application/rate_limit_status"),
                    kwargs |-> EmptyDict]>>
        /\ (pc = "done" /\ Len(resps) = 1) =>
            IF resps[1] = None THEN outcome = Returned(None)
            ELSE IF ~Known(resps[1], args.key_0)
                 THEN outcome = Returned(Resources(resps[1]))
            ELSE IF args.key_1 = None
                 THEN outcome = Returned(Resources(resps[1]).v[args.key_0.v])
            ELSE IF args.key_1.v \in DOMAIN Resources(resps[1]).v[args.key_0.v].v
                 THEN outcome =
                        Returned(Resources(resps[1]).v[args.key_0.v].v[args.key_1.v])
            ELSE outcome = Raised(KeyError)

\* C17, reached: get_rate_limits('statuses', '/statuses/user_timeline') has
\* returned the entry
C17_Witness ==
    /\ op = "get_rate_limits"
    /\ pc = "done"
    /\ args = [key_0 |-> S("statuses"), key_1 |-> S("/statuses/user_timeline")]
    /\ Len(reqs) = 1
    /\ outcome = Returned(I(900))

\* the n of get_home_timeline(max_tweets=n): the one argument it hands to
\* get_user_tweets besides the endpoint (line 496), as that call received it
HomeTimelineLimit ==
    IF args.max_tweets # None THEN args.max_tweets ELSE args.screen_name

\* C20: get_home_timeline(max_tweets=n) sends no screen_name and no user_id
\* with any request, and makes no request once n tweets or more are gathered.
C20_HomeTimelineLimit ==
    op = "get_home_timeline" =>
        /\ \A i \in DOMAIN reqs :
            /\ reqs[i].endpoint = S("/statuses/home_timeline")
            /\ "screen_name" \notin DOMAIN reqs[i].kwargs
            /\ "user_id" \notin DOMAIN reqs[i].kwargs
        /\ \A i \in 1..Len(resps) :
            (/\ HomeTimelineLimit.t = "int"
             /\ HomeTimelineLimit.v # 0
             /\ Len(Flatten(SubSeq(resps, 1, i))) >= HomeTimelineLimit.v) =>
                Len(reqs) = i

\* the tweets gathered by get_user_tweets before its request i
Gathered(i) == Len(Flatten(SubSeq(resps, 1, i - 1)))

\* C21: every request of get_user_tweets has a count from 1 to 200: 200 with
\* no max_tweets, else min(200, max_tweets - tweets gathered so far); and when
\* no response held more tweets than the count asked for, the tweets gathered
\* are never more than max_tweets.
C21_CountWithinLimit ==
    op \in {"get_user_timeline", "get_user_favorites", "get_home_timeline"} =>
        /\ \A i \in DOMAIN reqs :
            /\ reqs[i].kwargs["count"].v >= 1
            /\ reqs[i].kwargs["count"].v <= 200
            /\ reqs[i].kwargs["count"].v =
                 IF args.max_tweets.t = "int" /\ args.max_tweets.v # 0
                 THEN Min(200, args.max_tweets.v - Gathered(i))
                 ELSE 200
        /\ (/\ args.max_tweets.t = "int"
            /\ args.max_tweets.v # 0
            /\ \A i \in DOMAIN resps :
                 resps[i].t = "list" => Len(resps[i].v) <= reqs[i].kwargs["count"].v) =>
               /\ Len(tweets) <= args.max_tweets.v
               /\ (pc = "done" /\ outcome.kind = "return") =>
                      Len(outcome.val.v) <= args.max_tweets.v

\* C21, reached: max_tweets = 3; the second request asks for 1 after a page
\* of 2, gets 1, and 3 tweets are returned
C21_Witness ==
    /\ op = "get_user_timeline"
    /\ pc = "done"
    /\ args.max_tweets = I(3)
    /\ Len(reqs) = 2
    /\ reqs[1].kwargs["count"] = I(3)
    /\ reqs[2].kwargs["count"] = I(1)
    /\ Len(resps) = 2
    /\ resps[2].t = "list"
    /\ Len(resps[2].v) = 1
    /\ outcome.kind = "return"
    /\ Len(outcome.val.v) = 3

\* 1.5^k
Power15(k) == [num |-> 3^k, den |-> 2^k]

\* C22: while every failure of an endpoint_request has been a 5xx, attempt k
\* is followed by one sleep of 1.5^(k-1) seconds, which is below 1800; there
\* is no attempt after the 19th, whose failure is slept on (1.5^18 seconds)
\* like the others and then raised.
C22_BackoffRun ==
    (op = "endpoint_request" /\ n429 = 0 /\ lastCode \in {500, 502, 503, 504}) =>
        /\ netCalls <= 19
        /\ nSleeps = netCalls
        /\ slept = <<Power15(netCalls - 1)>>
        /\ Less(slept[1], Num(1800))
        /\ (dpc = "raise") <=> (netCalls = 19)
        /\ dpc = "raise" => exc = HTTPError(lastCode)
        /\ dpc # "raise" => dpc = "run" /\ wait = Power15(netCalls)

\* C22, reached: the 19th attempt has failed, 1.5^18 = 387420489 / 262144
\* seconds (about 1478) were slept, and the error is raised
C22_Witness ==
    /\ op = "endpoint_request"
    /\ n429 = 0
    /\ lastCode = 503
    /\ netCalls = 19
    /\ nSleeps = 19
    /\ slept = <<[num |-> 387420489, den |-> 262144]>>
    /\ dpc = "raise"
    /\ exc = HTTPError(503)

\* the items of the responses rs of the walk in progress, one after the other
Pages(rs) ==
    IF op \in {"get_cursored_items", "get_connection_ids"}
    THEN FlattenKey(rs, args.key)
    ELSE Flatten(rs)

\* C25: when endpoint_request returns None to get_user_tweets or to
\* get_cursored_items, as after a 401, 403 or 404, that response is the last
\* and the walker has returned, not raised, the items of the pages before it:
\* the list it returns when the data ends after those pages.
C25_BrokenWalkReturnsPages ==
    op \in {"get_user_timeline", "get_user_favorites", "get_home_timeline",
            "get_cursored_items", "get_connection_ids"} =>
        \A i \in DOMAIN resps :
            resps[i] = None =>
                /\ i = Len(resps)
                /\ Len(reqs) = i
                /\ pc = "done"
                /\ outcome = Returned(L(Pages(SubSeq(resps, 1, i - 1))))

\* C25, reached: a 404 on the second page of a timeline walk; the first page
\* is returned
C25_Witness ==
    /\ op = "get_user_timeline"
    /\ pc = "done"
    /\ lastCode = 404
    /\ resps = <<L(<<Tweet(4), Tweet(3)>>), None>>
    /\ outcome = Returned(L(<<Tweet(4), Tweet(3)>>))

\* C26: every request of get_cursored_items has the same count, 5000 by
\* default, whatever max_items is; what it gathers and returns is all the
\* pages it received, whole; so the result can be longer than max_items, by
\* no more than the length of the last page less one.
C26_CursorNoTruncation ==
    (op \in {"get_cursored_items", "get_connection_ids"} /\ pc # "idle") =>
        /\ \A i \in DOMAIN reqs : reqs[i].kwargs["count"] = I(5000)
        /\ tweets = FlattenKey(resps, args.key)
        /\ (pc = "done" /\ outcome.kind = "return") =>
            /\ outcome.val = L(FlattenKey(resps, args.key))
            /\ (/\ args.max_items.t = "int"
                /\ args.max_items.v # 0
                /\ Len(outcome.val.v) > args.max_items.v) =>
                   /\ resps[Len(resps)].t = "dict"
                   /\ Len(outcome.val.v) - args.max_items.v
                        <= Len(resps[Len(resps)].v[args.key].v) - 1

\* C26, reached: max_items = 1 and a first page of 2: both are returned
C26_Witness ==
    /\ op = "get_cursored_items"
    /\ pc = "done"
    /\ args.max_items = I(1)
    /\ Len(reqs) = 1
    /\ reqs[1].kwargs["count"] = I(5000)
    /\ outcome = Returned(L(<<I(11), I(12)>>))

\* C27: with an empty list or None for items, get_items_by_lookup makes no
\* request, calls no endpoint, and returns an empty list.
C27_NothingToLookUp ==
    (op \in {"get_user_profiles", "get_tweets_by_id"} /\ pc # "idle"
     /\ (args.items = None \/ args.items = L(<<>>))) =>
        /\ reqs = <<>>
        /\ netCalls = 0
        /\ dpc = "off"
        /\ pc = "done"
        /\ outcome = Returned(L(<<>>))

\* C27, reached: get_user_profiles() with neither screen_names nor user_ids
C27_Witness ==
    /\ op = "get_user_profiles"
    /\ pc = "done"
    /\ args.items = None
    /\ reqs = <<>>
    /\ outcome = Returned(L(<<>>))

----------------------------------------------------------------------------
(* Properties of the handler and of concurrent calls *)

\* C18: called with retry = False, the handler answers a 429 as it answers a
\* 401: it does not sleep and returns 0, so the loop ends with that attempt
\* and endpoint_request returns None, raising nothing.
C18_NoRetry429 ==
    (lastCode = 429 /\ args.retry = FALSE) =>
        /\ slept = <<>>
        /\ nSleeps = 0
        /\ newWait = Num(0)
        /\ wait = Num(0)
        /\ dpc = "ret"
        /\ dret = None
        /\ exc = NoExc
        /\ netCalls = 1

\* C18, reached: a 429 with retry = False, after the wait had grown
C18_Witness ==
    /\ lastCode = 429
    /\ args.retry = FALSE
    /\ Less(Num(100), prevWait)
    /\ dpc = "ret"

\* thread t took the step: its position or its budget changed
ThreadStepped(t) ==
    \/ frames'[t].dpc # frames[t].dpc
    \/ frames'[t].faults # frames[t].faults

\* C19: a call of endpoint_request enters its loop with wait = 1 whatever
\* wait the thread's earlier call ended with, and no step of one thread
\* (call, error, backoff, reset, return) changes the wait of the other.
C19_WaitIsPerCall ==
    [][\A t \in Threads :
          /\ (frames[t].dpc # "run" /\ frames'[t].dpc = "run") =>
                 frames'[t].wait = Num(1)
          /\ ~ThreadStepped(t) => frames'[t].wait = frames[t].wait]_vars

\* C19, reached: thread 1 has backed off twice and is still in its loop,
\* thread 2 is in a later call of its own, reset to wait = 1 by a 429
C19_Witness ==
    /\ frames[1].dpc = "run"
    /\ frames[1].wait = Times15(Times15(Num(1)))
    /\ frames[2].dpc = "run"
    /\ frames[2].lastCode = 429
    /\ frames[2].wait = Num(1)

----------------------------------------------------------------------------
(* Termination *)

\* endpoint_request has ended: it has returned or raised
Ended == dpc \in {"ret", "raise"}

\* a 429 has just been caught
Caught429 == dpc = "caught" /\ lastCode = 429

\* C23: once endpoint_request has ended it stays ended and catches no 429;
\* and if from some point on no 429 is caught, endpoint_request ends.  So the
\* runs in which it never ends are those that catch a 429 again and again.
C23_EndsUnlessEndless429 ==
    /\ [][Ended => (Ended' /\ ~Caught429')]_vars
    /\ (<>[]~Caught429) => <>Ended

\* C23, reached: a 429 caught after 5xx responses had raised the wait, which
\* the handler is about to set back to 1
C23_Witness ==
    /\ Caught429
    /\ Less(Num(100), wait)

\* a walk of get_user_tweets with no max_tweets is in progress
WalkingUnlimited ==
    /\ op \in {"get_user_timeline", "get_user_favorites", "get_home_timeline"}
    /\ pc = "dispatch"
    /\ args.max_tweets = None

\* C24: in a walk of get_user_tweets with no max_tweets over the ids
\* 1..MaxId, request i > 1 has a max_id from 0 to MaxId - (i - 1), one lower
\* at least with each request, so there are at most MaxId + 1 requests; and
\* every such walk ends.
C24_UnlimitedWalkEnds ==
    /\ [](WalkingUnlimited =>
            /\ Len(reqs) <= MaxId + 1
            /\ \A i \in DOMAIN reqs :
                 i > 1 => /\ reqs[i].kwargs["max_id"].v >= 0
                          /\ reqs[i].kwargs["max_id"].v <= MaxId - (i - 1)
                          /\ i > 2 => reqs[i].kwargs["max_id"].v
                                         < reqs[i - 1].kwargs["max_id"].v)
    /\ WalkingUnlimited ~> (pc = "done")

\* C24, reached: a walk with no max_tweets that took a page for every id and
\* ended on the empty page of request MaxId + 1
C24_Witness ==
    /\ op = "get_user_timeline"
    /\ pc = "done"
    /\ args.max_tweets = None
    /\ Len(reqs) = MaxId + 1
    /\ Len(resps) = MaxId + 1
    /\ resps[MaxId + 1] = L(<<>>)
    /\ reqs[MaxId + 1].kwargs["max_id"] = I(0)
    /\ outcome.kind = "return"
    /\ Len(outcome.val.v) = MaxId

====
